---- MODULE Spec2Model ----
(***************************************************************************)
(* Model of the reminder selection and rotation engine of                  *)
(* reminder-display: src/src/reminders.rs (Reminder, ReminderManager) and  *)
(* the periodic driver and the progress indicator of src/src/main.rs.      *)
(*                                                                         *)
(* Strings are TLA+ strings, read character by character with SubSeq.      *)
(* Option<T> is a sequence of length 0 (None) or 1 (Some).                 *)
(* The host clock is one variable, now, in whole seconds since the epoch;  *)
(* the local time zone is taken to be UTC.                                 *)
(***************************************************************************)
EXTENDS Integers, Sequences, FiniteSets, TLC

VARIABLES
    reminders,        \* ReminderManager.reminders: Vec<Reminder>
    current_index,    \* ReminderManager.current_index: usize
    last_rotation,    \* ReminderManager.last_rotation: u64 (epoch seconds)
    last_file_check,  \* ReminderManager.last_file_check: String
    file,             \* the backing source at file_path, as the file system holds it
    now,              \* the host wall clock, epoch seconds
    last_call,        \* history: the last operation and the branches it took
    last_tick,        \* history: when rotate_if_needed last ran and whether it was due
    file_path,        \* ReminderManager.file_path: String
    interval,         \* ReminderManager.rotation_interval: u64 (seconds)
    lock,             \* ReminderDisplayApp.reminder_manager, the Mutex: who holds it
    pc                \* where the background task and the presentation loop stand

vars == <<reminders, current_index, last_rotation, last_file_check, file, now, last_call,
          last_tick, file_path, interval, lock, pc>>

(***************************************************************************)
(* Bounds of the model and constants of the program.                       *)
(***************************************************************************)
\* longest payload an editor of the source writes
MaxLen == 2
\* number of clock readings of InstantSeq the host clock passes through
NumInstants == 4
\* number of ten-second periods of the background task that RotationSpec follows
NumTicks == 12
\* ReminderManager::new: rotation_interval
rotation_interval == 30

None == <<>>
Some(v) == <<v>>

(***************************************************************************)
(* Strings.                                                                *)
(***************************************************************************)
CharAt(s, i) == SubSeq(s, i, i)

\* char::to_lowercase on the ASCII range
LowerChar(c) ==
    CASE c = "A" -> "a" [] c = "B" -> "b" [] c = "C" -> "c" [] c = "D" -> "d"
      [] c = "E" -> "e" [] c = "F" -> "f" [] c = "G" -> "g" [] c = "H" -> "h"
      [] c = "I" -> "i" [] c = "J" -> "j" [] c = "K" -> "k" [] c = "L" -> "l"
      [] c = "M" -> "m" [] c = "N" -> "n" [] c = "O" -> "o" [] c = "P" -> "p"
      [] c = "Q" -> "q" [] c = "R" -> "r" [] c = "S" -> "s" [] c = "T" -> "t"
      [] c = "U" -> "u" [] c = "V" -> "v" [] c = "W" -> "w" [] c = "X" -> "x"
      [] c = "Y" -> "y" [] c = "Z" -> "z"
      [] OTHER -> c

RECURSIVE to_lowercase(_)
to_lowercase(s) ==
    IF Len(s) = 0 THEN s
    ELSE LowerChar(CharAt(s, 1)) \o to_lowercase(SubSeq(s, 2, Len(s)))

RECURSIVE trim_start(_)
trim_start(s) ==
    IF Len(s) > 0 /\ CharAt(s, 1) = " " THEN trim_start(SubSeq(s, 2, Len(s))) ELSE s

RECURSIVE trim_end(_)
trim_end(s) ==
    IF Len(s) > 0 /\ CharAt(s, Len(s)) = " " THEN trim_end(SubSeq(s, 1, Len(s) - 1)) ELSE s

\* str::trim
trim(s) == trim_end(trim_start(s))

\* str::split_once('-'): the parts before and after the first '-'
split_once(s) ==
    IF \E i \in 1..Len(s) : CharAt(s, i) = "-"
    THEN LET i == CHOOSE j \in 1..Len(s) :
                      /\ CharAt(s, j) = "-"
                      /\ \A k \in 1..(j - 1) : CharAt(s, k) # "-"
         IN  Some(<<SubSeq(s, 1, i - 1), SubSeq(s, i + 1, Len(s))>>)
    ELSE None

Digits == "0123456789"
IsDigit(c) == c \in {"0", "1", "2", "3", "4", "5", "6", "7", "8", "9"}
DigitValue(c) == CHOOSE d \in 0..9 : CharAt(Digits, d + 1) = c
DigitChar(d) == CharAt(Digits, d + 1)

\* chrono scan::number(s, 1, 2): one or two leading digits; <<value, rest>>
scan_number(s) ==
    IF Len(s) = 0 \/ ~IsDigit(CharAt(s, 1)) THEN None
    ELSE IF Len(s) >= 2 /\ IsDigit(CharAt(s, 2))
         THEN Some(<<10 * DigitValue(CharAt(s, 1)) + DigitValue(CharAt(s, 2)),
                     SubSeq(s, 3, Len(s))>>)
         ELSE Some(<<DigitValue(CharAt(s, 1)), SubSeq(s, 2, Len(s))>>)

\* NaiveTime::parse_from_str(s, "%H:%M"): seconds since midnight, or None
parse_from_str(s) ==
    LET h == scan_number(trim_start(s)) IN
    IF h = None THEN None
    ELSE LET rest == h[1][2] IN
         IF Len(rest) = 0 \/ CharAt(rest, 1) # ":" THEN None
         ELSE LET m == scan_number(trim_start(SubSeq(rest, 2, Len(rest)))) IN
              IF m = None THEN None
              ELSE IF Len(m[1][2]) # 0 \/ h[1][1] > 23 \/ m[1][1] > 59 THEN None
                   ELSE Some(h[1][1] * 3600 + m[1][1] * 60)

(***************************************************************************)
(* The local clock: Local::now() and the fields the code reads from it.    *)
(***************************************************************************)
DayNames == <<"Sunday", "Monday", "Tuesday", "Wednesday", "Thursday", "Friday", "Saturday">>

\* now.format("%A"): day 0 of the epoch is a Thursday
weekday_name(t) == DayNames[(((t \div 86400) + 4) % 7) + 1]

\* now.hour()
hour(t) == (t % 86400) \div 3600

\* now.time(), in seconds since midnight
time_of_day(t) == t % 86400

TwoDigits(n) == DigitChar(n \div 10) \o DigitChar(n % 10)

\* Local::now().format("%H:%M:%S")
format_hms(t) ==
    TwoDigits(hour(t)) \o ":" \o TwoDigits((t % 3600) \div 60) \o ":" \o TwoDigits(t % 60)

(***************************************************************************)
(* Reminder.                                                               *)
(***************************************************************************)
Reminder(text, category, priority, time_range, days) ==
    [text |-> text, category |-> category, priority |-> priority,
     time_range |-> time_range, days |-> days]

\* faulty variant: the end hour of a keyword window belongs to the window
is_in_time_range_closed(time_range, t) ==
    LET lower == to_lowercase(time_range) IN
    IF lower = "morning" THEN hour(t) >= 6 /\ hour(t) <= 12
    ELSE IF lower = "afternoon" THEN hour(t) >= 12 /\ hour(t) <= 17
    ELSE IF lower = "evening" THEN hour(t) >= 17 /\ hour(t) <= 22
    ELSE LET parts == split_once(time_range) IN
         IF parts = None THEN TRUE
         ELSE LET start == parse_from_str(trim(parts[1][1]))
                  end   == parse_from_str(trim(parts[1][2]))
              IN  IF start # None /\ end # None
                  THEN time_of_day(t) >= start[1] /\ time_of_day(t) <= end[1]
                  ELSE TRUE

\* faulty variant: a range that cannot be read hides the record
is_in_time_range_fail_closed(time_range, t) ==
    LET lower == to_lowercase(time_range) IN
    IF lower = "morning" THEN hour(t) >= 6 /\ hour(t) < 12
    ELSE IF lower = "afternoon" THEN hour(t) >= 12 /\ hour(t) < 17
    ELSE IF lower = "evening" THEN hour(t) >= 17 /\ hour(t) < 22
    ELSE LET parts == split_once(time_range) IN
         IF parts = None THEN FALSE
         ELSE LET start == parse_from_str(trim(parts[1][1]))
                  end   == parse_from_str(trim(parts[1][2]))
              IN  IF start # None /\ end # None
                  THEN time_of_day(t) >= start[1] /\ time_of_day(t) <= end[1]
                  ELSE FALSE

\* faulty variant: a range whose start is later than its end runs over midnight
is_in_time_range_wrapping(time_range, t) ==
    LET lower == to_lowercase(time_range) IN
    IF lower = "morning" THEN hour(t) >= 6 /\ hour(t) < 12
    ELSE IF lower = "afternoon" THEN hour(t) >= 12 /\ hour(t) < 17
    ELSE IF lower = "evening" THEN hour(t) >= 17 /\ hour(t) < 22
    ELSE LET parts == split_once(time_range) IN
         IF parts = None THEN TRUE
         ELSE LET start == parse_from_str(trim(parts[1][1]))
                  end   == parse_from_str(trim(parts[1][2]))
              IN  IF start # None /\ end # None
                  THEN IF start[1] <= end[1]
                       THEN time_of_day(t) >= start[1] /\ time_of_day(t) <= end[1]
                       ELSE time_of_day(t) >= start[1] \/ time_of_day(t) <= end[1]
                  ELSE TRUE

is_in_time_range(time_range, t) ==
    LET lower == to_lowercase(time_range) IN
    IF lower = "morning" THEN hour(t) >= 6 /\ hour(t) < 12
    ELSE IF lower = "afternoon" THEN hour(t) >= 12 /\ hour(t) < 17
    ELSE IF lower = "evening" THEN hour(t) >= 17 /\ hour(t) < 22
    ELSE LET parts == split_once(time_range) IN
         IF parts = None THEN TRUE
         ELSE LET start == parse_from_str(trim(parts[1][1]))
                  end   == parse_from_str(trim(parts[1][2]))
              IN  IF start # None /\ end # None
                  THEN time_of_day(t) >= start[1] /\ time_of_day(t) <= end[1]
                  ELSE TRUE

\* faulty variant: a record passes when either of its two constraints is met
is_active_now_any(r, t) ==
    \/ r.days = None
    \/ LET current_day == to_lowercase(weekday_name(t)) IN
       \E i \in 1..Len(r.days[1]) : to_lowercase(r.days[1][i]) = current_day
    \/ r.time_range = None
    \/ is_in_time_range(r.time_range[1], t)

is_active_now(r, t) ==
    IF /\ r.days # None
       /\ LET current_day == to_lowercase(weekday_name(t)) IN
          ~\E i \in 1..Len(r.days[1]) : to_lowercase(r.days[1][i]) = current_day
    THEN FALSE
    ELSE IF r.time_range # None
         THEN is_in_time_range(r.time_range[1], t)
         ELSE TRUE

(***************************************************************************)
(* The backing source.  A JSON document is either not a JSON array of      *)
(* objects at all (wellformed = FALSE) or a sequence of objects; an object *)
(* is a function from the member names it holds to Option values, None     *)
(* being JSON null.                                                        *)
(***************************************************************************)
RequiredFields == {"text", "category", "priority"}

\* serde: a String member must be present and not null; an Option member may be
\* absent or null; members the struct does not name are ignored
deserializable(obj) ==
    \A k \in RequiredFields : k \in DOMAIN obj /\ obj[k] # None

member(obj, k) == IF k \in DOMAIN obj THEN obj[k] ELSE None

deserialize(obj) ==
    Reminder(obj["text"][1], obj["category"][1], obj["priority"][1],
             member(obj, "time_range"), member(obj, "days"))

\* serde_json::from_str::<Vec<Reminder>>
from_str(content) ==
    IF /\ content.wellformed
       /\ \A i \in 1..Len(content.items) : deserializable(content.items[i])
    THEN [ok |-> TRUE, value |-> [i \in 1..Len(content.items) |-> deserialize(content.items[i])]]
    ELSE [ok |-> FALSE, value |-> <<>>]

serialize(r) ==
    [text |-> Some(r.text), category |-> Some(r.category), priority |-> Some(r.priority),
     time_range |-> r.time_range, days |-> r.days]

\* serde_json::to_string_pretty(&Vec<Reminder>)
to_string_pretty(rs) ==
    [wellformed |-> TRUE, items |-> [i \in 1..Len(rs) |-> serialize(rs[i])]]

\* the file system's view of file_path
Missing == [status |-> "missing", content |-> [wellformed |-> FALSE, items |-> <<>>]]
Unreadable == [status |-> "unreadable", content |-> [wellformed |-> FALSE, items |-> <<>>]]
Present(content) == [status |-> "ok", content |-> content]

(***************************************************************************)
(* ReminderManager.                                                        *)
(***************************************************************************)
Weekdays == <<"monday", "tuesday", "wednesday", "thursday", "friday">>

default_reminders ==
    << Reminder("Check your monitoring dashboards", "DevOps", "high",
                Some("09:00-17:00"), Some(Weekdays)),
       Reminder("Review and respond to alerts", "DevOps", "high",
                Some("09:00-17:00"), Some(Weekdays)),
       Reminder("Take a 5-minute break and stretch", "Health", "medium", None, None),
       Reminder("Check backup status and logs", "DevOps", "medium",
                Some("morning"), Some(<<"monday", "wednesday", "friday">>)),
       Reminder("Review security alerts and patches", "Security", "high",
                Some("morning"), Some(<<"monday", "thursday">>)) >>

\* fs::write(&self.file_path, json): ok says whether the write succeeds
fs_write(f, json, ok) == IF ok THEN Present(json) ELSE f

\* faulty variant: the default payload is written but not installed in memory
create_default_reminders_file_not_installed(self, f, t, write_ok) ==
    [self |-> self,
     file |-> fs_write(f, to_string_pretty(default_reminders), write_ok),
     outcome |-> IF write_ok THEN "Created" ELSE "WriteFailed"]

create_default_reminders_file(self, f, t, write_ok) ==
    IF write_ok
    THEN [self |-> [self EXCEPT !.reminders = default_reminders,
                                !.last_file_check = format_hms(t)],
          file |-> fs_write(f, to_string_pretty(default_reminders), write_ok),
          outcome |-> "Created"]
    ELSE [self |-> self,
          file |-> fs_write(f, to_string_pretty(default_reminders), write_ok),
          outcome |-> "WriteFailed"]

\* faulty variant: a payload that does not parse is taken as an empty list
load_reminders_blanking(self, f, t, write_ok) ==
    IF f.status = "ok"
    THEN LET parsed == from_str(f.content) IN
         [self |-> [self EXCEPT
              !.reminders = parsed.value,
              !.last_file_check = format_hms(t),
              !.current_index =
                  IF self.current_index >= Len(parsed.value) /\ parsed.value # <<>>
                  THEN 0 ELSE self.current_index],
          file |-> f,
          outcome |-> IF parsed.ok THEN "Loaded" ELSE "ParseError"]
    ELSE create_default_reminders_file(self, f, t, write_ok)

\* faulty variant: the records read are added to the list instead of replacing it
load_reminders_merging(self, f, t, write_ok) ==
    IF f.status = "ok"
    THEN LET parsed == from_str(f.content) IN
         IF parsed.ok
         THEN LET merged == self.reminders \o parsed.value IN
              [self |-> [self EXCEPT
                   !.reminders = merged,
                   !.last_file_check = format_hms(t),
                   !.current_index =
                       IF self.current_index >= Len(merged) /\ merged # <<>>
                       THEN 0 ELSE self.current_index],
               file |-> f,
               outcome |-> "Loaded"]
         ELSE [self |-> self, file |-> f, outcome |-> "ParseError"]
    ELSE create_default_reminders_file(self, f, t, write_ok)

\* faulty variant: a successful load restarts the rotation interval
load_reminders_restarting(self, f, t, write_ok) ==
    IF f.status = "ok"
    THEN LET parsed == from_str(f.content) IN
         IF parsed.ok
         THEN [self |-> [self EXCEPT
                   !.reminders = parsed.value,
                   !.last_file_check = format_hms(t),
                   !.last_rotation = t,
                   !.current_index =
                       IF self.current_index >= Len(parsed.value) /\ parsed.value # <<>>
                       THEN 0 ELSE self.current_index],
               file |-> f,
               outcome |-> "Loaded"]
         ELSE [self |-> self, file |-> f, outcome |-> "ParseError"]
    ELSE create_default_reminders_file(self, f, t, write_ok)

load_reminders(self, f, t, write_ok) ==
    IF f.status = "ok"
    THEN LET parsed == from_str(f.content) IN
         IF parsed.ok
         THEN [self |-> [self EXCEPT
                   !.reminders = parsed.value,
                   !.last_file_check = format_hms(t),
                   !.current_index =
                       IF self.current_index >= Len(parsed.value) /\ parsed.value # <<>>
                       THEN 0 ELSE self.current_index],
               file |-> f,
               outcome |-> "Loaded"]
         ELSE [self |-> self, file |-> f, outcome |-> "ParseError"]
    ELSE create_default_reminders_file(self, f, t, write_ok)

check_for_updates(self, f, t, write_ok) == load_reminders(self, f, t, write_ok)

\* ReminderManager::find_reminders_file, with REMINDERS_FILE unset and none of the
\* candidate paths existing: the file the model calls file is the one at this path
find_reminders_file == "work_reminders.json"

\* ReminderManager::new, before its call of load_reminders
new_manager(t) ==
    [reminders |-> <<>>, current_index |-> 0, last_rotation |-> t,
     rotation_interval |-> rotation_interval, last_file_check |-> "",
     file_path |-> find_reminders_file]

active_reminders(self, t) == SelectSeq(self.reminders, LAMBDA r : is_active_now(r, t))

\* faulty variant: every stored record is counted, eligible or not
get_active_reminder_count_unfiltered(self, t) == Len(self.reminders)

get_active_reminder_count(self, t) == Len(active_reminders(self, t))

\* slice::get
get(v, i) == IF i < Len(v) THEN Some(v[i + 1]) ELSE None

\* faulty variant: the cursor indexes the active records without the modulo
get_current_reminder_unreduced(self, t) ==
    LET active == active_reminders(self, t) IN
    IF active = <<>> THEN None
    ELSE get(active, self.current_index)

get_current_reminder(self, t) ==
    LET active == active_reminders(self, t) IN
    IF active = <<>> THEN None
    ELSE get(active, self.current_index % Len(active))

Max(a, b) == IF a >= b THEN a ELSE b

\* a - b on u64 without overflow checks: the difference, or, when b > a, the
\* value 2^64 - (b - a), kept as wrapped = TRUE and value = b - a
u64_sub(a, b) ==
    IF a >= b THEN [wrapped |-> FALSE, value |-> a - b]
    ELSE [wrapped |-> TRUE, value |-> b - a]

\* d >= n for a difference d and a number of seconds n: a wrapped difference is
\* above every n the program compares it with
u64_ge(d, n) == d.wrapped \/ d.value >= n

\* now - self.last_rotation overflows
underflows(self, t) == u64_sub(t, self.last_rotation).wrapped

rotation_due(self, t) == u64_ge(u64_sub(t, self.last_rotation), self.rotation_interval)

\* faulty variant: every call rotates, whatever time has passed
rotate_if_needed_eager(self, t) ==
    [self EXCEPT
        !.current_index =
            (self.current_index + 1) % Max(get_active_reminder_count(self, t), 1),
        !.last_rotation = t]

\* faulty variant: a rotation does not record when it happened
rotate_if_needed_unstamped(self, t) ==
    IF rotation_due(self, t)
    THEN [self EXCEPT
             !.current_index =
                 (self.current_index + 1) % Max(get_active_reminder_count(self, t), 1)]
    ELSE self

\* faulty variant: the cursor wraps at the number of stored records
rotate_if_needed_over_stored(self, t) ==
    IF rotation_due(self, t)
    THEN [self EXCEPT
             !.current_index = (self.current_index + 1) % Max(Len(self.reminders), 1),
             !.last_rotation = t]
    ELSE self

\* faulty variant: the interval must be exceeded, not reached
rotate_if_needed_strict(self, t) ==
    IF t - self.last_rotation > rotation_interval
    THEN [self EXCEPT
             !.current_index =
                 (self.current_index + 1) % Max(get_active_reminder_count(self, t), 1),
             !.last_rotation = t]
    ELSE self

rotate_if_needed(self, t) ==
    IF rotation_due(self, t)
    THEN [self EXCEPT
             !.current_index =
                 (self.current_index + 1) % Max(get_active_reminder_count(self, t), 1),
             !.last_rotation = t]
    ELSE self

get_total_reminders(self, t) == get_active_reminder_count(self, t)

get_current_index(self) == self.current_index

\* faulty variant: the remaining time is not floored once the interval has elapsed
time_until_next_rotation_unfloored(self, t) ==
    rotation_interval - (t - self.last_rotation)

time_until_next_rotation(self, t) ==
    LET elapsed == u64_sub(t, self.last_rotation) IN
    IF u64_ge(elapsed, self.rotation_interval) THEN 0
    ELSE self.rotation_interval - elapsed.value

\* ReminderDisplayApp::update, the progress indicator: None when it is not shown,
\* else the numbers of "Reminder {} of {}"
progress_indicator(self, t) ==
    LET total == get_total_reminders(self, t) IN
    IF total > 1 THEN Some(<<get_current_index(self) + 1, total>>) ELSE None

\* ReminderDisplayApp::update, what one frame reads from the manager: the reminder
\* or None ("No reminders configured"), the progress indicator, the countdown
\* (shown with more than one active reminder), the status line
update(self, t) ==
    LET total == get_total_reminders(self, t) IN
    [reminder  |-> get_current_reminder(self, t),
     progress  |-> progress_indicator(self, t),
     countdown |-> IF total > 1 THEN Some(time_until_next_rotation(self, t)) ELSE None,
     loaded    |-> total,
     label     |-> self.last_file_check]

(***************************************************************************)
(* The environment: what an editor may leave at file_path, and the clock.  *)
(***************************************************************************)
ObjAlways  == [text |-> Some("Drink water"), category |-> Some("Health"), priority |-> Some("low")]
ObjMorning == [text |-> Some("Check backups"), category |-> Some("DevOps"),
               priority |-> Some("medium"), time_range |-> Some("morning"), days |-> None]
ObjNoText  == [category |-> Some("Health"), priority |-> Some("low"), time_range |-> None]

ValidObjs == {ObjAlways, ObjMorning}

RECURSIVE SeqsUpTo(_, _)
SeqsUpTo(S, n) ==
    IF n = 0 THEN {<<>>}
    ELSE LET shorter == SeqsUpTo(S, n - 1) IN
         shorter \cup {Append(q, x) : q \in shorter, x \in S}

Garbage == [wellformed |-> FALSE, items |-> <<>>]

\* payloads that parse: every array of at most MaxLen objects of ValidObjs
GoodPayloads == {[wellformed |-> TRUE, items |-> q] : q \in SeqsUpTo(ValidObjs, MaxLen)}

\* payloads that do not: not JSON, and arrays holding an object without "text"
BadPayloads ==
    {Garbage, [wellformed |-> TRUE, items |-> <<ObjNoText>>],
     [wellformed |-> TRUE, items |-> <<ObjAlways, ObjNoText>>]}

FileStates == {Missing, Unreadable} \cup {Present(c) : c \in GoodPayloads \cup BadPayloads}

\* Monday 2024-01-01 00:00:00
Monday0 == 19723 * 86400

At(day, h, m, s) == Monday0 + day * 86400 + h * 3600 + m * 60 + s

InstantSeq ==
    << At(0, 11, 59, 20), At(0, 11, 59, 30), At(0, 11, 59, 50), At(0, 12, 0, 0),
       At(0, 12, 0, 20), At(0, 17, 0, 30), At(1, 10, 0, 0), At(5, 10, 0, 0),
       At(5, 10, 0, 30), At(6, 23, 0, 0) >>

Instants == {InstantSeq[i] : i \in 1..(IF NumInstants < Len(InstantSeq)
                                        THEN NumInstants ELSE Len(InstantSeq))}

(***************************************************************************)
(* The state machine.                                                      *)
(***************************************************************************)
Self ==
    [reminders |-> reminders, current_index |-> current_index,
     last_rotation |-> last_rotation, rotation_interval |-> interval,
     last_file_check |-> last_file_check, file_path |-> file_path]

\* the fields of the manager
manager ==
    <<reminders, current_index, last_rotation, interval, last_file_check, file_path>>

Call(op, read, outcome, due) ==
    [op |-> op, read |-> read, outcome |-> outcome, due |-> due, shown |-> None]

\* the record kept of a call of rotate_if_needed
Tick(t, due) == Some([at |-> t, due |-> due])

Install(self) ==
    /\ reminders' = self.reminders
    /\ current_index' = self.current_index
    /\ last_rotation' = self.last_rotation
    /\ interval' = self.rotation_interval
    /\ last_file_check' = self.last_file_check
    /\ file_path' = self.file_path

\* ReminderManager::new at the first clock reading, whatever is at file_path
Init ==
    /\ now = InstantSeq[1]
    /\ \E f \in FileStates, write_ok \in BOOLEAN :
          LET r == load_reminders(new_manager(now), f, now, write_ok) IN
          /\ reminders = r.self.reminders
          /\ current_index = r.self.current_index
          /\ last_rotation = r.self.last_rotation
          /\ last_file_check = r.self.last_file_check
          /\ interval = r.self.rotation_interval
          /\ file_path = r.self.file_path
          /\ file = r.file
          /\ last_call = Call("new", f.status, r.outcome, FALSE)
    /\ last_tick = None
    /\ lock = "free"
    /\ pc = [driver |-> "tick", ui |-> "frame"]

CheckForUpdates ==
    \E write_ok \in BOOLEAN :
      \E r \in {check_for_updates(Self, file, now, write_ok)} :
        /\ now' = now
        /\ last_call' = Call("check_for_updates", file.status, r.outcome, FALSE)
        /\ file' = r.file
        /\ Install(r.self)
        /\ UNCHANGED <<last_tick, lock, pc>>

RotateIfNeeded ==
    \E rotated \in {rotate_if_needed(Self, now)} :
        /\ UNCHANGED <<file, now, lock, pc>>
        /\ last_call' = Call("rotate_if_needed", "none", "none", rotation_due(Self, now))
        /\ last_tick' = Tick(now, rotation_due(Self, now))
        /\ Install(rotated)

\* faulty variant: a turn whose refresh did not load gives up before rotating
DriverCycle_gives_up ==
    \E write_ok \in BOOLEAN :
      \E r \in {check_for_updates(Self, file, now, write_ok)} :
        \E rotated \in {IF r.outcome = "Loaded" THEN rotate_if_needed(r.self, now) ELSE r.self} :
          /\ UNCHANGED <<now, lock, pc>>
          /\ last_call' = Call("driver", file.status, r.outcome, rotation_due(r.self, now))
          /\ last_tick' = Tick(now, rotation_due(r.self, now))
          /\ file' = r.file
          /\ Install(rotated)

\* one turn of the background task of ReminderDisplayApp::new, under the lock
DriverCycle ==
    \E write_ok \in BOOLEAN :
      \E r \in {check_for_updates(Self, file, now, write_ok)} :
        \E rotated \in {rotate_if_needed(r.self, now)} :
          /\ UNCHANGED <<now, lock, pc>>
          /\ last_call' = Call("driver", file.status, r.outcome, rotation_due(r.self, now))
          /\ last_tick' = Tick(now, rotation_due(r.self, now))
          /\ file' = r.file
          /\ Install(rotated)

\* one frame of ReminderDisplayApp::update, under the lock
Update ==
    /\ last_call' = [Call("update", "none", "none", FALSE) EXCEPT
                         !.shown = Some(update(Self, now))]
    /\ UNCHANGED <<manager, file, now, last_tick, lock, pc>>

\* the host clock moves on
ClockAdvance ==
    /\ \E t \in Instants : t > now /\ now' = t
    /\ last_call' = Call("clock", "none", "none", FALSE)
    /\ UNCHANGED <<manager, file, last_tick, lock, pc>>

\* somebody edits, replaces, deletes or protects the file at file_path
EditSource ==
    /\ \E f \in FileStates : f # file /\ file' = f
    /\ last_call' = Call("edit", "none", "none", FALSE)
    /\ UNCHANGED <<manager, now, last_tick, lock, pc>>

Next ==
    CheckForUpdates \/ RotateIfNeeded \/ DriverCycle \/ Update \/ ClockAdvance \/ EditSource

Spec == Init /\ [][Next]_vars

\* The program as it runs: only the background task calls the manager.  The task
\* loops for the life of the process and tokio's interval fires again and again,
\* so a turn that would change something is eventually taken.
DriverNext == DriverCycle \/ ClockAdvance \/ EditSource

DriverSpec == Init /\ [][DriverNext]_vars /\ WF_vars(DriverCycle)

(***************************************************************************)
(* The application, step by step: the background task and the presentation *)
(* loop of main.rs as two processes around the Mutex.  pc.driver is "tick" *)
(* (awaiting interval.tick()), "lock" (in lock()), "check", "rotate" or    *)
(* "drop" (the guard goes out of scope); pc.ui is "frame" (between two     *)
(* calls of update), "lock", "draw" or "drop".                             *)
(***************************************************************************)
\* interval.tick().await returns
DriverTick ==
    /\ pc.driver = "tick"
    /\ pc' = [pc EXCEPT !.driver = "lock"]
    /\ UNCHANGED <<manager, file, now, last_call, last_tick, lock>>

\* faulty variant: the task enters without waiting for the Mutex to be free
DriverLock_unguarded ==
    /\ pc.driver = "lock"
    /\ lock' = "driver"
    /\ pc' = [pc EXCEPT !.driver = "check"]
    /\ UNCHANGED <<manager, file, now, last_call, last_tick>>

\* manager_clone.lock() returns the guard
DriverLock ==
    /\ pc.driver = "lock"
    /\ lock = "free"
    /\ lock' = "driver"
    /\ pc' = [pc EXCEPT !.driver = "check"]
    /\ UNCHANGED <<manager, file, now, last_call, last_tick>>

\* manager.check_for_updates()
DriverCheck ==
    /\ pc.driver = "check"
    /\ \E write_ok \in BOOLEAN :
         \E r \in {check_for_updates(Self, file, now, write_ok)} :
           /\ last_call' = Call("check_for_updates", file.status, r.outcome, FALSE)
           /\ file' = r.file
           /\ Install(r.self)
    /\ pc' = [pc EXCEPT !.driver = "rotate"]
    /\ UNCHANGED <<now, last_tick, lock>>

\* manager.rotate_if_needed()
DriverRotate ==
    /\ pc.driver = "rotate"
    /\ \E rotated \in {rotate_if_needed(Self, now)} : Install(rotated)
    /\ last_call' = Call("rotate_if_needed", "none", "none", rotation_due(Self, now))
    /\ last_tick' = Tick(now, rotation_due(Self, now))
    /\ pc' = [pc EXCEPT !.driver = "drop"]
    /\ UNCHANGED <<file, now, lock>>

\* faulty variant: the guard outlives the turn of the loop
DriverDrop_keeping ==
    /\ pc.driver = "drop"
    /\ pc' = [pc EXCEPT !.driver = "tick"]
    /\ UNCHANGED <<manager, file, now, last_call, last_tick, lock>>

\* the guard is dropped at the end of the if-let block
DriverDrop ==
    /\ pc.driver = "drop"
    /\ lock' = "free"
    /\ pc' = [pc EXCEPT !.driver = "tick"]
    /\ UNCHANGED <<manager, file, now, last_call, last_tick>>

\* eframe calls update for the next frame (request_repaint_after)
UiFrame ==
    /\ pc.ui = "frame"
    /\ pc' = [pc EXCEPT !.ui = "lock"]
    /\ UNCHANGED <<manager, file, now, last_call, last_tick, lock>>

\* self.reminder_manager.lock() returns the guard
UiLock ==
    /\ pc.ui = "lock"
    /\ lock = "free"
    /\ lock' = "ui"
    /\ pc' = [pc EXCEPT !.ui = "draw"]
    /\ UNCHANGED <<manager, file, now, last_call, last_tick>>

\* the body of the if-let block of update: the accessors, all of them &self
UiDraw ==
    /\ pc.ui = "draw"
    /\ last_call' = [Call("update", "none", "none", FALSE) EXCEPT
                         !.shown = Some(update(Self, now))]
    /\ pc' = [pc EXCEPT !.ui = "drop"]
    /\ UNCHANGED <<manager, file, now, last_tick, lock>>

\* the guard is dropped at the end of the if-let block
UiDrop ==
    /\ pc.ui = "drop"
    /\ lock' = "free"
    /\ pc' = [pc EXCEPT !.ui = "frame"]
    /\ UNCHANGED <<manager, file, now, last_call, last_tick>>

DriverStep == DriverTick \/ DriverLock \/ DriverCheck \/ DriverRotate \/ DriverDrop

UiStep == UiFrame \/ UiLock \/ UiDraw \/ UiDrop

\* the source stays as the task leaves it: what startup finds there and whether
\* a write succeeds decide the outcomes of the refreshes
AppNext == DriverStep \/ UiStep \/ ClockAdvance

\* Both loops run for the life of the process; a thread that is not blocked runs
\* on, the timers fire, and a thread waiting in lock() gets the Mutex at one of
\* the times it is free.
AppFairness ==
    /\ WF_vars(DriverTick) /\ SF_vars(DriverLock) /\ WF_vars(DriverCheck)
    /\ WF_vars(DriverRotate) /\ WF_vars(DriverDrop)
    /\ WF_vars(UiFrame) /\ SF_vars(UiLock) /\ WF_vars(UiDraw) /\ WF_vars(UiDrop)

AppSpec == Init /\ [][AppNext]_vars /\ AppFairness

(***************************************************************************)
(* One record at a time, as the unit tests of Reminder take it: a manager  *)
(* constructed on a Monday, at any of a set of clock readings, over a      *)
(* source holding a single record, and frames drawn from it through the    *)
(* week.                                                                   *)
(***************************************************************************)
\* the days lists tried, each with the days of the week (0 = Monday) it names
ProbeDays ==
    { [days |-> None, on |-> 0..6],
      [days |-> Some(<<"monday", "wednesday", "friday">>), on |-> {0, 2, 4}],
      [days |-> Some(<<"Tuesday", "SATURDAY">>), on |-> {1, 5}],
      [days |-> Some(<<"nonexistentday">>), on |-> {}] }

Keywords == {"morning", "Morning", "AFTERNOON", "afternoon", "evening", "Evening"}

\* strings that are no keyword and whose two sides do not both read as HH:MM
Unparseable ==
    {"not-a-range", "invalid-format", "noon", "09:00-", "-17:00", "09:00-17:60",
     "09:00-17:00-18:00"}

\* literal ranges whose start is later than their end
Inverted == {"22:00-06:00", "17:00-09:00"}

ProbeRanges ==
    {None, Some("09:00-17:00")} \cup {Some(w) : w \in Keywords \cup Unparseable \cup Inverted}

\* clock readings <<hour, minute, second>>: every full hour and the edges of
\* the windows
ProbeClocks ==
    {<<h, 0, 0>> : h \in 0..23}
      \cup {<<5, 59, 59>>, <<8, 59, 0>>, <<8, 59, 59>>, <<9, 0, 30>>, <<11, 59, 59>>,
            <<16, 59, 59>>, <<17, 0, 30>>, <<17, 0, 59>>, <<17, 1, 0>>, <<21, 59, 59>>}

ProbeInstants == {At(0, c[1], c[2], c[3]) : c \in ProbeClocks}

\* create_test_reminder
create_test_reminder(time_range, days) ==
    Reminder("Test reminder", "Test", "medium", time_range, days)

MatcherInit ==
    \E t \in ProbeInstants, d \in ProbeDays, w \in ProbeRanges :
      LET f == Present(to_string_pretty(<<create_test_reminder(w, d.days)>>))
          r == load_reminders(new_manager(t), f, t, TRUE)
      IN  /\ now = t
          /\ reminders = r.self.reminders
          /\ current_index = r.self.current_index
          /\ last_rotation = r.self.last_rotation
          /\ last_file_check = r.self.last_file_check
          /\ interval = r.self.rotation_interval
          /\ file_path = r.self.file_path
          /\ file = r.file
          /\ last_call = Call("new", f.status, r.outcome, FALSE)
          /\ last_tick = None
          /\ lock = "free"
          /\ pc = [driver |-> "tick", ui |-> "frame"]

\* the same clock reading one day later, within the week
NextDay ==
    /\ now + 86400 < Monday0 + 7 * 86400
    /\ now' = now + 86400
    /\ last_call' = Call("clock", "none", "none", FALSE)
    /\ UNCHANGED <<manager, file, last_tick, lock, pc>>

MatcherNext == Update \/ NextDay

MatcherSpec == MatcherInit /\ [][MatcherNext]_vars

(***************************************************************************)
(* The background task over a source nobody edits, on a Monday morning     *)
(* from 10:00:00: a turn every ten seconds, for NumTicks periods.          *)
(***************************************************************************)
ObjEvening == [text |-> Some("Review the day"), category |-> Some("Work"),
               priority |-> Some("high"), time_range |-> Some("evening")]

RotationObjs == {ObjAlways, ObjMorning, ObjEvening}

RotationStart == At(0, 10, 0, 0)

\* time::interval(Duration::from_secs(10)), in seconds
DriverPeriod == 10

RotationEnd == RotationStart + DriverPeriod * NumTicks

RotationInit ==
    \E q \in SeqsUpTo(RotationObjs, MaxLen + 1) :
      LET f == Present([wellformed |-> TRUE, items |-> q])
          r == load_reminders(new_manager(RotationStart), f, RotationStart, TRUE)
      IN  /\ now = RotationStart
          /\ reminders = r.self.reminders
          /\ current_index = r.self.current_index
          /\ last_rotation = r.self.last_rotation
          /\ last_file_check = r.self.last_file_check
          /\ interval = r.self.rotation_interval
          /\ file_path = r.self.file_path
          /\ file = r.file
          /\ last_call = Call("new", f.status, r.outcome, FALSE)
          /\ last_tick = None
          /\ lock = "free"
          /\ pc = [driver |-> "tick", ui |-> "frame"]

\* the period of time::interval(Duration::from_secs(10)) passes, the turn of
\* this period done
TenSeconds ==
    /\ last_call.op = "driver"
    /\ now + DriverPeriod <= RotationEnd
    /\ now' = now + DriverPeriod
    /\ last_call' = Call("clock", "none", "none", FALSE)
    /\ UNCHANGED <<manager, file, last_tick, lock, pc>>

RotationNext == DriverCycle \/ TenSeconds

RotationSpec ==
    RotationInit /\ [][RotationNext]_vars /\ WF_vars(DriverCycle) /\ WF_vars(TenSeconds)

(***************************************************************************)
(* A list longer than the default record set: the manager is constructed   *)
(* over a source of up to LongLen unconstrained records on a Monday        *)
(* morning; its methods are called in any order while the clock moves on   *)
(* by rotation intervals, and the file may be deleted.                     *)
(***************************************************************************)
LongLen == 6

LongEnd == RotationStart + rotation_interval * LongLen

LongInit ==
    \E q \in SeqsUpTo({ObjAlways}, LongLen) :
      LET f == Present([wellformed |-> TRUE, items |-> q])
          r == load_reminders(new_manager(RotationStart), f, RotationStart, TRUE)
      IN  /\ now = RotationStart
          /\ reminders = r.self.reminders
          /\ current_index = r.self.current_index
          /\ last_rotation = r.self.last_rotation
          /\ last_file_check = r.self.last_file_check
          /\ interval = r.self.rotation_interval
          /\ file_path = r.self.file_path
          /\ file = r.file
          /\ last_call = Call("new", f.status, r.outcome, FALSE)
          /\ last_tick = None
          /\ lock = "free"
          /\ pc = [driver |-> "tick", ui |-> "frame"]

\* one rotation interval passes
IntervalPasses ==
    /\ now + rotation_interval <= LongEnd
    /\ now' = now + rotation_interval
    /\ last_call' = Call("clock", "none", "none", FALSE)
    /\ UNCHANGED <<manager, file, last_tick, lock, pc>>

\* somebody deletes the file at file_path
RemoveSource ==
    /\ file # Missing
    /\ file' = Missing
    /\ last_call' = Call("edit", "none", "none", FALSE)
    /\ UNCHANGED <<manager, now, last_tick, lock, pc>>

LongNext == CheckForUpdates \/ RotateIfNeeded \/ IntervalPasses \/ RemoveSource

LongSpec == LongInit /\ [][LongNext]_vars

(***************************************************************************)
(* A host clock that is set: SystemTime::now() may read earlier than it    *)
(* did before.  now - self.last_rotation then overflows, and what follows  *)
(* depends on the build: with overflow checks (the dev profile) the call   *)
(* panics while the Mutex is held, which poisons it, and lock() is Err     *)
(* from then on; without them (the release profile) the difference wraps.  *)
(***************************************************************************)
SkewInit ==
    \E t \in Instants, c \in GoodPayloads :
      LET f == Present(c)
          r == load_reminders(new_manager(t), f, t, TRUE)
      IN  /\ now = t
          /\ reminders = r.self.reminders
          /\ current_index = r.self.current_index
          /\ last_rotation = r.self.last_rotation
          /\ last_file_check = r.self.last_file_check
          /\ interval = r.self.rotation_interval
          /\ file_path = r.self.file_path
          /\ file = r.file
          /\ last_call = Call("new", f.status, r.outcome, FALSE)
          /\ last_tick = None
          /\ lock = "free"
          /\ pc = [driver |-> "tick", ui |-> "frame"]

\* the host clock is set, forwards or backwards
ClockSteps ==
    /\ \E t \in Instants : t # now /\ now' = t
    /\ last_call' = Call("clock", "none", "none", FALSE)
    /\ UNCHANGED <<manager, file, last_tick, lock, pc>>

\* rotate_if_needed called by the background task, whose lock() was Ok
RotateUnderLock ==
    /\ lock = "free"
    /\ \E overflow_checks \in BOOLEAN :
          IF underflows(Self, now) /\ overflow_checks
          THEN /\ lock' = "poisoned"
               /\ last_call' = Call("rotate_if_needed", "none", "Panic", FALSE)
               /\ UNCHANGED <<manager, file, now, last_tick, pc>>
          ELSE \E rotated \in {rotate_if_needed(Self, now)} :
                 /\ Install(rotated)
                 /\ last_call' = Call("rotate_if_needed", "none", "none",
                                      rotation_due(Self, now))
                 /\ last_tick' = Tick(now, rotation_due(Self, now))
                 /\ UNCHANGED <<file, now, lock, pc>>

\* one frame of ReminderDisplayApp::update, whose lock() was Ok: the countdown
\* calls time_until_next_rotation when more than one reminder is active
UpdateUnderLock ==
    /\ lock = "free"
    /\ \E overflow_checks \in BOOLEAN :
          IF get_total_reminders(Self, now) > 1 /\ underflows(Self, now) /\ overflow_checks
          THEN /\ lock' = "poisoned"
               /\ last_call' = Call("update", "none", "Panic", FALSE)
               /\ UNCHANGED <<manager, file, now, last_tick, pc>>
          ELSE /\ last_call' = [Call("update", "none", "none", FALSE) EXCEPT
                                    !.shown = Some(update(Self, now))]
               /\ UNCHANGED <<manager, file, now, last_tick, lock, pc>>

SkewNext == RotateUnderLock \/ UpdateUnderLock \/ ClockSteps

SkewSpec == SkewInit /\ [][SkewNext]_vars

(***************************************************************************)
(* Vocabulary of the properties.                                           *)
(***************************************************************************)
\* positions of the records of rs that are eligible at t
EligibleAt(rs, t) == {p \in 1..Len(rs) : is_active_now(rs[p], t)}

ActiveCount == Cardinality(EligibleAt(reminders, now))

\* the state is the one a refresh has just returned in: new() or check_for_updates()
Refreshed(read, outcome) ==
    /\ last_call.op \in {"new", "check_for_updates"}
    /\ last_call.read = read
    /\ last_call.outcome = outcome

\* every hour and half hour of every day of one week
WeekGrid == {At(d, h, m, 0) : d \in 0..6, h \in 0..23, m \in {0, 30}}

(***************************************************************************)
(* C1: a refresh that reads the source but cannot parse it leaves the      *)
(* record list, the cursor, the last-rotation timestamp and the refresh    *)
(* label exactly as they were; a non-empty list does not become empty.     *)
(***************************************************************************)
C1_MalformedKeepsState ==
    [][(last_call'.op = "check_for_updates" /\ last_call'.outcome = "ParseError")
          => UNCHANGED <<reminders, current_index, last_rotation, last_file_check>>]_vars

C1_Witness ==
    /\ Refreshed("ok", "ParseError")
    /\ last_call.op = "check_for_updates"
    /\ reminders # <<>>
    /\ current_index > 0

(***************************************************************************)
(* C2: get_current_reminder is None exactly when no stored record is       *)
(* eligible now; otherwise it is the record that has (cursor mod count)    *)
(* eligible records before it in the list, count being the number         *)
(* eligible now, also when the cursor is not below that count.             *)
(***************************************************************************)
C2_CurrentReminder ==
    LET elig == EligibleAt(reminders, now)
        cur  == get_current_reminder(Self, now)
    IN  IF elig = {} THEN cur = None
        ELSE \E p \in elig :
                /\ Cardinality({q \in elig : q < p}) = current_index % Cardinality(elig)
                /\ cur = Some(reminders[p])

C2_Witness ==
    /\ ActiveCount >= 1
    /\ current_index >= ActiveCount
    /\ get_current_reminder(Self, now) # None

(***************************************************************************)
(* C3: whenever at least one record is eligible, the position that         *)
(* get_current_index hands to the shell is below the active count.         *)
(***************************************************************************)
C3_PositionBelowCount ==
    get_total_reminders(Self, now) >= 1
        => get_current_index(Self) < get_total_reminders(Self, now)

(***************************************************************************)
(* C4: no refresh outcome stops the rotation.  A turn of the driver whose  *)
(* refresh found the source missing, unreadable or malformed, or could not *)
(* write the default payload, still rotates by the normal rule when the    *)
(* interval has elapsed, and get_current_reminder still answers from the   *)
(* list in memory; and with the driver running, whatever the refreshes     *)
(* meet, a rotation that is due is eventually carried out.                 *)
(***************************************************************************)
C4_RotationSurvivesRefresh ==
    /\ [][(/\ last_call'.op = "driver"
           /\ last_call'.outcome # "Loaded"
           /\ now - last_rotation >= rotation_interval)
          => /\ current_index' =
                    (current_index + 1) % Max(Cardinality(EligibleAt(reminders', now)), 1)
             /\ last_rotation' = now
             /\ (EligibleAt(reminders', now) # {}
                    => get_current_reminder(Self', now') # None)]_vars
    \* (due ~> not due), written in its equivalent form: not due again and again
    /\ []<>(now - last_rotation < rotation_interval)

C4_Witness ==
    /\ last_call.op = "driver"
    /\ last_call.outcome \in {"ParseError", "WriteFailed"}
    /\ last_call.due
    /\ current_index > 0
    /\ ActiveCount >= 2

(***************************************************************************)
(* C5: a load that finds no source and writes the default payload leaves   *)
(* the five default records in the source and in memory, and at every      *)
(* weekday and time of day at least one of them is eligible.               *)
(***************************************************************************)
DefaultsNeverEmpty == \A t \in WeekGrid : EligibleAt(default_reminders, t) # {}

C5_DefaultsCreated ==
    Refreshed("missing", "Created")
        => /\ Len(reminders) = 5
           /\ reminders = default_reminders
           /\ file.status = "ok"
           /\ from_str(file.content) = [ok |-> TRUE, value |-> reminders]
           /\ DefaultsNeverEmpty

C5_Witness ==
    /\ Refreshed("missing", "Created")
    /\ last_call.op = "check_for_updates"
    /\ now # last_rotation

(***************************************************************************)
(* C6: when the source is missing and the default payload cannot be        *)
(* written, the default record set is installed in memory all the same.    *)
(***************************************************************************)
C6_DefaultsInMemoryOnWriteFailure ==
    Refreshed("missing", "WriteFailed") => reminders = default_reminders

(***************************************************************************)
(* C7: a refresh that cannot read the source for another reason than its   *)
(* absence keeps the record list, the cursor and the refresh label, and    *)
(* does not overwrite the source.                                          *)
(***************************************************************************)
C7_UnreadableKeepsState ==
    [][(last_call'.op = "check_for_updates" /\ last_call'.read = "unreadable")
          => UNCHANGED <<reminders, current_index, last_file_check, file>>]_vars

(***************************************************************************)
(* C8: after a successful refresh the list is exactly the records of the   *)
(* source, in source order, nothing kept of the previous list, and the     *)
(* refresh label is the time of the refresh.                               *)
(***************************************************************************)
C8_LoadReplacesWholesale ==
    Refreshed("ok", "Loaded")
        => LET items == file.content.items IN
           /\ Len(reminders) = Len(items)
           /\ \A i \in 1..Len(items) :
                 /\ reminders[i].text = items[i]["text"][1]
                 /\ reminders[i].category = items[i]["category"][1]
                 /\ reminders[i].priority = items[i]["priority"][1]
                 /\ reminders[i].time_range =
                        (IF "time_range" \in DOMAIN items[i] THEN items[i]["time_range"] ELSE None)
                 /\ reminders[i].days =
                        (IF "days" \in DOMAIN items[i] THEN items[i]["days"] ELSE None)
           /\ last_file_check = format_hms(now)

\* a reload that found an empty array after the cursor had moved over a longer list
C8_Witness ==
    /\ Refreshed("ok", "Loaded")
    /\ last_call.op = "check_for_updates"
    /\ reminders = <<>>
    /\ current_index > 0

(***************************************************************************)
(* C9: get_total_reminders is the number of stored records eligible now,   *)
(* so at most the number stored; right after a load of N records it is the *)
(* number of those N that are eligible.                                    *)
(***************************************************************************)
C9_ActiveCount ==
    LET total == get_total_reminders(Self, now) IN
    /\ total = Cardinality(EligibleAt(reminders, now))
    /\ total <= Len(reminders)
    /\ Refreshed("ok", "Loaded")
          => total = Cardinality({i \in 1..Len(file.content.items) :
                                     is_active_now(deserialize(file.content.items[i]), now)})

C9_Witness ==
    /\ Refreshed("ok", "Loaded")
    /\ Len(file.content.items) = 2
    /\ get_total_reminders(Self, now) = 1

C11_SecondCallNeverMoves ==
    [][(/\ last_call'.op = "rotate_if_needed"
        /\ last_tick # None
        /\ now - last_tick[1].at < rotation_interval)
          => current_index' = current_index]_vars

(***************************************************************************)
(* C11 amended: of two calls of rotate_if_needed less than one interval    *)
(* apart, the second changes neither the cursor nor the last-rotation      *)
(* timestamp when the first was due; when the first was not due, the       *)
(* second changes them exactly when the interval has elapsed since the     *)
(* last rotation.                                                          *)
(***************************************************************************)
C11_IdempotentAfterAdvance ==
    [][(/\ last_call'.op = "rotate_if_needed"
        /\ last_tick # None
        /\ now - last_tick[1].at < rotation_interval)
          => /\ last_tick[1].due => UNCHANGED <<current_index, last_rotation>>
             /\ (~last_tick[1].due /\ now - last_rotation < rotation_interval)
                    => UNCHANGED <<current_index, last_rotation>>
             /\ (~last_tick[1].due /\ now - last_rotation >= rotation_interval)
                    => /\ current_index' = (current_index + 1) % Max(ActiveCount, 1)
                       /\ last_rotation' = now]_vars

\* a second call ten seconds after a call that moved the cursor on
C11_Witness ==
    /\ last_call.op = "rotate_if_needed"
    /\ ~last_call.due
    /\ last_rotation # InstantSeq[1]
    /\ now > last_rotation
    /\ now - last_rotation < rotation_interval
    /\ current_index = 1

(***************************************************************************)
(* C12: time_until_next_rotation is max(0, interval - (now - last          *)
(* rotation)): 0 once the interval has elapsed, the remaining seconds      *)
(* before, and always between 0 and the interval; the countdown a frame    *)
(* shows is that number.                                                   *)
(***************************************************************************)
C12_TimeUntilNextRotation ==
    LET left    == time_until_next_rotation(Self, now)
        elapsed == now - last_rotation
    IN  /\ left = Max(0, rotation_interval - elapsed)
        /\ elapsed >= rotation_interval => left = 0
        /\ elapsed < rotation_interval => left = rotation_interval - elapsed
        /\ left >= 0
        /\ left <= rotation_interval
        /\ (last_call.op = "update" /\ last_call.shown[1].countdown # None)
               => last_call.shown[1].countdown[1] = Max(0, rotation_interval - elapsed)

\* a frame drawn forty seconds after the last rotation, two records being eligible
C12_Witness ==
    /\ last_call.op = "update"
    /\ last_call.shown[1].countdown = Some(0)
    /\ now - last_rotation > rotation_interval

DriverInside == {"check", "rotate", "drop"}
UiInside == {"draw", "drop"}

(***************************************************************************)
(* C13: the background task and the presentation loop are never inside the *)
(* manager together, and whoever is inside holds the Mutex; a turn of the  *)
(* task runs check_for_updates, then rotate_if_needed, then lets go, one   *)
(* turn at a time; the manager changes only in those two calls, and a      *)
(* frame of the presentation loop leaves the record list, the cursor, the  *)
(* last-rotation timestamp and the refresh label as they were.             *)
(***************************************************************************)
C13_EngineAccessExclusive ==
    /\ [](/\ ~(pc.driver \in DriverInside /\ pc.ui \in UiInside)
          /\ (pc.driver \in DriverInside => lock = "driver")
          /\ (pc.ui \in UiInside => lock = "ui"))
    /\ [][/\ (pc.driver = "check" /\ pc'.driver # "check")
             => (pc'.driver = "rotate" /\ last_call'.op = "check_for_updates")
          /\ (pc.driver = "rotate" /\ pc'.driver # "rotate")
             => (pc'.driver = "drop" /\ last_call'.op = "rotate_if_needed")
          /\ (pc.driver = "drop" /\ pc'.driver # "drop")
             => (pc'.driver = "tick" /\ lock' = "free")
          /\ (pc'.driver = "check" => pc.driver \in {"lock", "check"})
          /\ (manager' # manager
                 => (lock = "driver" /\ pc.driver \in {"check", "rotate"}))
          /\ (pc'.ui # pc.ui => manager' = manager)]_vars

\* the presentation loop has drawn a frame while the task waits in lock()
C13_Witness ==
    /\ pc.ui = "drop"
    /\ pc.driver = "lock"
    /\ last_call.op = "update"
    /\ last_call.shown[1].reminder # None
    /\ current_index > 0

RefreshOutcomes == {"Loaded", "ParseError", "Created", "WriteFailed"}

(***************************************************************************)
(* C14: nothing blocks for ever.  Some step of the task or of the          *)
(* presentation loop is always possible; a refresh ends in one of its      *)
(* outcomes and the turn goes on to the rotation; whoever holds the Mutex  *)
(* lets go of it; and, the threads being scheduled fairly, the task and    *)
(* the presentation loop each get the Mutex whenever they wait for it,     *)
(* again and again for as long as the process runs.                        *)
(***************************************************************************)
C14_NoIndefiniteBlocking ==
    /\ [](ENABLED (DriverStep \/ UiStep))
    /\ [][(pc.driver = "check" /\ pc'.driver # "check")
             => (pc'.driver = "rotate" /\ last_call'.outcome \in RefreshOutcomes)]_vars
    /\ (pc.driver = "check") ~> (pc.driver = "rotate")
    /\ (lock # "free") ~> (lock = "free")
    /\ (pc.driver = "lock") ~> (pc.driver = "check")
    /\ (pc.ui = "lock") ~> (pc.ui = "draw")
    /\ []<>(pc.driver = "check")
    /\ []<>(pc.ui = "draw")

\* the presentation loop waits in lock() while the task, whose refresh could not
\* write the default payload, is about to rotate
C14_Witness ==
    /\ pc.ui = "lock"
    /\ lock = "driver"
    /\ pc.driver = "rotate"
    /\ last_call.outcome = "WriteFailed"

\* the clock reading and the day of the week (0 = Monday) of now
ClockHour == ((now - Monday0) % 86400) \div 3600
ClockMinute == ((now - Monday0) % 3600) \div 60
DayOfWeek == ((now - Monday0) \div 86400) % 7

\* the last step drew a frame
Drawn == last_call.op = "update"

(***************************************************************************)
(* C15: a record is eligible when its day constraint and its time          *)
(* constraint both pass, a missing constraint passing.  Without days the   *)
(* answer is the same on all seven weekdays; with days, the record is      *)
(* ineligible on every weekday the list does not name, in any letter case, *)
(* whatever its time_range, and on the days named it is as eligible as the *)
(* same record without days; a record with neither is always eligible.     *)
(***************************************************************************)
C15_DayAndTimeConjunction ==
    LET r == reminders[1] IN
    /\ r.days = None
          => \A d \in 0..6 :
                is_active_now(r, now + (d - DayOfWeek) * 86400) = is_active_now(r, now)
    /\ \A c \in ProbeDays :
          (c.days # None /\ r.days = c.days)
             => IF DayOfWeek \in c.on
                THEN is_active_now(r, now) = is_active_now([r EXCEPT !.days = None], now)
                ELSE /\ ~is_active_now(r, now)
                     /\ Drawn => (last_call.shown[1].reminder = None
                                    /\ last_call.shown[1].loaded = 0)
    /\ (r.days = None /\ r.time_range = None)
          => /\ is_active_now(r, now)
             /\ Drawn => last_call.shown[1].reminder = Some(r)

\* a frame on a Monday of a record for Tuesday and Saturday whose range cannot be read
C15_Witness ==
    /\ Drawn
    /\ DayOfWeek = 0
    /\ reminders[1].days = Some(<<"Tuesday", "SATURDAY">>)
    /\ reminders[1].time_range = Some("not-a-range")
    /\ last_call.shown[1].reminder = None

(***************************************************************************)
(* C16: without days, a keyword range in any letter case makes the record  *)
(* eligible exactly in its hours: morning 6..11, afternoon 12..16, evening *)
(* 17..21; at no hour do two keywords pass, and from 22 to 5 none does.    *)
(***************************************************************************)
C16_KeywordWindows ==
    LET r == reminders[1]
        h == ClockHour
        window(w) == IF w \in {"morning", "Morning"} THEN 6..11
                     ELSE IF w \in {"AFTERNOON", "afternoon"} THEN 12..16
                     ELSE 17..21
        passing == {w \in {"morning", "afternoon", "evening"} :
                       is_active_now(create_test_reminder(Some(w), None), now)}
    IN  /\ (r.days = None /\ r.time_range # None /\ r.time_range[1] \in Keywords)
              => /\ is_active_now(r, now) <=> h \in window(r.time_range[1])
                 /\ Drawn => (last_call.shown[1].reminder # None
                                 <=> h \in window(r.time_range[1]))
        /\ Cardinality(passing) <= 1
        /\ (h >= 22 \/ h <= 5) => passing = {}

\* a frame at 11:59:59 that shows a record for "Morning"
C16_Witness ==
    /\ Drawn
    /\ ClockHour = 11
    /\ ClockMinute = 59
    /\ reminders[1].days = None
    /\ reminders[1].time_range = Some("Morning")
    /\ last_call.shown[1].reminder # None

(***************************************************************************)
(* C17: without days, the range "09:00-17:00" makes the record eligible    *)
(* whenever the clock reads 09:00 to 17:00, the whole of minute 17:00      *)
(* included, and ineligible at 08:59 and at 17:01.                         *)
(***************************************************************************)
C17_RangeInclusive ==
    LET r == reminders[1]
        minute == ClockHour * 60 + ClockMinute
    IN  (r.days = None /\ r.time_range = Some("09:00-17:00"))
           => /\ (minute >= 9 * 60 /\ minute <= 17 * 60) => is_active_now(r, now)
              /\ (minute = 9 * 60 - 1 \/ minute = 17 * 60 + 1) => ~is_active_now(r, now)

(***************************************************************************)
(* C18: without days, a time_range that is no keyword and whose two sides  *)
(* around the first '-' do not both read as HH:MM (no '-', one side only,  *)
(* hours or minutes out of range, "not-a-range") leaves the record         *)
(* eligible at every instant.                                              *)
(***************************************************************************)
C18_FailOpen ==
    LET r == reminders[1] IN
    (r.days = None /\ r.time_range # None /\ r.time_range[1] \in Unparseable)
       => /\ is_active_now(r, now)
          /\ Drawn => last_call.shown[1].reminder = Some(r)

\* a frame at 03:00 that shows a record whose range has a start and no end
C18_Witness ==
    /\ Drawn
    /\ ClockHour = 3
    /\ reminders[1].days = None
    /\ reminders[1].time_range = Some("09:00-")
    /\ last_call.shown[1].reminder # None

\* the place in the list of the record get_current_reminder answers with: the
\* eligible record that has (cursor mod count) eligible records before it
DisplayedAt(rs, idx, t) ==
    LET elig == EligibleAt(rs, t) IN
    CHOOSE p \in elig : Cardinality({q \in elig : q < p}) = idx % Cardinality(elig)

\* the number of eligible records before place p
RankAt(rs, p, t) == Cardinality({q \in EligibleAt(rs, t) : q < p})

(***************************************************************************)
(* C19: with the list unchanged and n >= 2 of its records eligible all     *)
(* along, every rotation of the background task moves get_current_reminder *)
(* from the k-th eligible record, in list order, to the one of rank        *)
(* (k + 1) mod n, and a turn that is not due leaves it; so, the task       *)
(* running and time passing, each eligible record is displayed within n    *)
(* intervals, whenever n intervals are still to come.                      *)
(***************************************************************************)
C19_RotationCoversActiveSet ==
    /\ [][(last_call'.op = "driver" /\ ActiveCount >= 2)
            => LET before == DisplayedAt(reminders, current_index, now)
                   after  == DisplayedAt(reminders', current_index', now')
               IN  /\ reminders' = reminders
                   /\ get_current_reminder(Self', now') = Some(reminders[after])
                   /\ RankAt(reminders, after, now) =
                          IF last_call'.due
                          THEN (RankAt(reminders, before, now) + 1) % ActiveCount
                          ELSE RankAt(reminders, before, now)]_vars
    /\ \A p \in 1..(MaxLen + 1) :
          (/\ p \in EligibleAt(reminders, now)
           /\ ActiveCount >= 2
           /\ now + ActiveCount * rotation_interval <= RotationEnd)
             ~> (/\ p \in EligibleAt(reminders, now)
                 /\ DisplayedAt(reminders, current_index, now) = p
                 /\ get_current_reminder(Self, now) = Some(reminders[p]))

\* the cursor is back on the first of two eligible records, an ineligible one
\* standing between them in the list
C19_Witness ==
    /\ last_call.op = "driver"
    /\ last_call.due
    /\ now >= RotationStart + 2 * rotation_interval
    /\ Len(reminders) = 3
    /\ EligibleAt(reminders, now) = {1, 3}
    /\ current_index = 0

(***************************************************************************)
(* C20: when a refresh or a rotation has completed, a cursor that is not   *)
(* below the number of records eligible now is 0: the stored cursor is     *)
(* below max(active count, 1) after each call that changes the manager.    *)
(***************************************************************************)
C20_CursorResetOnShrink ==
    last_call.op \in {"new", "check_for_updates", "rotate_if_needed", "driver"}
        => /\ ActiveCount <= current_index => current_index = 0
           /\ current_index < Max(ActiveCount, 1)

(***************************************************************************)
(* C21: a literal range whose start is later than its end, "22:00-06:00",  *)
(* makes the record ineligible at every time of every day, whatever its    *)
(* days: the range does not run over midnight.                             *)
(***************************************************************************)
C21_InvertedRangeNeverEligible ==
    LET r == reminders[1] IN
    (r.time_range # None /\ r.time_range[1] \in Inverted)
       => /\ ~is_active_now(r, now)
          /\ Drawn => (last_call.shown[1].reminder = None /\ last_call.shown[1].loaded = 0)

\* a frame at 23:00 of a record for "22:00-06:00" without days
C21_Witness ==
    /\ Drawn
    /\ ClockHour = 23
    /\ reminders[1].days = None
    /\ reminders[1].time_range = Some("22:00-06:00")
    /\ last_call.shown[1].reminder = None

(***************************************************************************)
(* C22: rotate_if_needed changes nothing but the cursor and the            *)
(* last-rotation timestamp: not the list, the refresh label, the source    *)
(* or its location.  A refresh changes nothing but the list, the refresh   *)
(* label and the cursor: not the last-rotation timestamp or the interval.  *)
(* The source location chosen at construction and the rotation interval    *)
(* are the same in every state.                                            *)
(***************************************************************************)
C22_FrameConditions ==
    /\ [][last_call'.op = "rotate_if_needed"
            => UNCHANGED <<reminders, last_file_check, file_path, interval, file>>]_vars
    /\ [][last_call'.op = "check_for_updates"
            => UNCHANGED <<last_rotation, interval, file_path>>]_vars
    /\ [][UNCHANGED <<file_path, interval>>]_vars
    /\ [](file_path = find_reminders_file /\ interval = rotation_interval)

\* a refresh that loaded one record some time after a rotation
C22_Witness ==
    /\ Refreshed("ok", "Loaded")
    /\ last_call.op = "check_for_updates"
    /\ last_rotation > InstantSeq[1]
    /\ now > last_rotation
    /\ Len(reminders) = 1

(***************************************************************************)
(* C24: in every state reachable through construction, refresh and tick,   *)
(* a non-empty list has the stored cursor strictly below its length.       *)
(***************************************************************************)
C24_CursorWithinList == reminders # <<>> => current_index < Len(reminders)

(***************************************************************************)
(* C23: a refresh that follows a refresh, with the source untouched and no *)
(* tick in between, leaves the list and the cursor as the first one left   *)
(* them.                                                                   *)
(***************************************************************************)
C23_RefreshIdempotent ==
    [][(/\ last_call.op \in {"new", "check_for_updates"}
        /\ last_call.outcome \in {"Loaded", "ParseError", "Created"}
        /\ last_call'.op = "check_for_updates")
       => (reminders' = reminders /\ current_index' = current_index)]_vars

(***************************************************************************)
(* C25: at every call of rotate_if_needed, and at every frame that shows   *)
(* the countdown (time_until_next_rotation), the clock reading is at least *)
(* the stored last_rotation, so that now - last_rotation does not          *)
(* underflow, also when the host clock has been set back between calls.    *)
(***************************************************************************)
C25_NoUnderflow ==
    [][(\/ last_call'.op = "rotate_if_needed"
        \/ (last_call'.op = "update" /\ get_total_reminders(Self, now) > 1))
       => now >= last_rotation]_vars

\* the clock readings at which the background task takes its turns
TurnTimes == {RotationStart + DriverPeriod * k : k \in 0..NumTicks}

(***************************************************************************)
(* C26: with a clock that does not go back, a rotation happens only when   *)
(* at least rotation_interval seconds have passed since the previous one   *)
(* (since construction, for the first), and it records its time; the       *)
(* cursor moves under an unchanged list only by such a rotation.  With the *)
(* background task taking a turn every DriverPeriod seconds, no more than  *)
(* rotation_interval + DriverPeriod seconds pass without a rotation, a     *)
(* rotation follows each rotation (and construction) within that time, and *)
(* from the moment the interval has elapsed until that rotation the        *)
(* countdown reads 0.                                                      *)
(***************************************************************************)
C26_RotationOncePerInterval ==
    /\ [][last_rotation' # last_rotation
            => (/\ last_rotation' = now'
                /\ last_call'.due
                /\ last_rotation' - last_rotation >= rotation_interval
                /\ last_rotation' - last_rotation <= rotation_interval + DriverPeriod)]_vars
    /\ [][(current_index' # current_index /\ reminders' = reminders)
            => last_rotation' # last_rotation]_vars
    /\ [](last_rotation = RotationStart \/ last_rotation >= RotationStart + rotation_interval)
    /\ [](now - last_rotation <= rotation_interval + DriverPeriod)
    /\ [](now - last_rotation >= rotation_interval
            => time_until_next_rotation(Self, now) = 0)
    /\ \A t \in TurnTimes :
          (last_rotation = t /\ t + rotation_interval + DriverPeriod <= RotationEnd)
              ~> (last_rotation > t /\ last_rotation <= t + rotation_interval + DriverPeriod)

\* the second rotation, one interval after the first, back to the first of
\* two eligible records
C26_Witness ==
    /\ last_call.op = "driver"
    /\ last_call.due
    /\ last_rotation = RotationStart + 2 * rotation_interval
    /\ now = last_rotation
    /\ ActiveCount = 2
    /\ Len(reminders) = 2
    /\ current_index = 0

====
